---- MODULE Spec2Model ----
(***************************************************************************)
(* Model of inventario_tienda/inventario_sqlite.py: the Inventario class   *)
(* (an in-memory cache with two indexes in front of the SQLite table       *)
(* productos) as it is driven by menu().                                   *)
(*                                                                         *)
(* A name is a sequence of characters.  A dict is a sequence of Producto   *)
(* records in insertion order (Python dicts iterate in insertion order).   *)
(* Each mutating method is three steps, as in its code: the validation,    *)
(* lookup and conn.execute; conn.commit; the update of the in-memory       *)
(* structures and the return.  Each read is one step.  Three history       *)
(* variables record what the properties need of the past: the calls on     *)
(* conn the current method call has completed, the ids given out and the   *)
(* ids deleted.                                                            *)
(***************************************************************************)
EXTENDS Integers, Sequences, FiniteSets, TLC

\* Largest id the AUTOINCREMENT counter may hand out in the model.
MaxSeq == 2

\* Python's None, as the value of Producto.id and of cur.lastrowid.
None == -1

\* Arguments the menu passes in.  The names strip to "", "A" and "a": an empty
\* name, two names with one normalized form, and a name ("") that is a proper
\* substring of the others.
Nombres == { <<" ">>, <<"A">>, <<" ", "a">> }
Consultas == Nombres \cup { <<"b">> }
Cantidades == {-1, 0, 1}
Precios == {-1, 0, 1}
Ids == 1..MaxSeq

VARIABLES
    disco,              \* the committed content of the database file
    conn,               \* the content as the open connection sees it
    _productos_por_id,  \* dict id -> Producto, in insertion order
    _nombre_idx,        \* dict normalized name -> set of ids
    pc,                 \* "menu", "commit", "indexar", "retorno", "error", "cerrado"
    llamada,            \* the frame (arguments, locals) of the current method call
    resultado,          \* what the call gave menu(), until menu() has printed it
    previo,             \* the table as committed when the current call began
    traza,              \* the calls on conn the current method call has completed
    asignados,          \* the ids of the Productos anadir_producto has returned
    eliminados          \* the ids for which eliminar_producto has returned True

vars == <<disco, conn, _productos_por_id, _nombre_idx, pc, llamada, resultado, previo,
          traza, asignados, eliminados>>

----------------------------------------------------------------------------
\* str.strip(), str.lower(), `q in s`

lstrip(s) ==
    IF \A i \in DOMAIN s : s[i] = " " THEN <<>>
    ELSE SubSeq(s, CHOOSE i \in DOMAIN s : s[i] # " " /\ \A j \in 1..(i - 1) : s[j] = " ",
                Len(s))

rstrip(s) ==
    IF \A i \in DOMAIN s : s[i] = " " THEN <<>>
    ELSE SubSeq(s, 1,
                CHOOSE i \in DOMAIN s : s[i] # " " /\ \A j \in (i + 1)..Len(s) : s[j] = " ")

strip(s) == rstrip(lstrip(s))

lower(s) == [i \in DOMAIN s |-> IF s[i] = "A" THEN "a" ELSE IF s[i] = "B" THEN "b" ELSE s[i]]

contiene(q, s) == \E i \in 0..(Len(s) - Len(q)) : SubSeq(s, i + 1, i + Len(q)) = q

_normaliza(s) == lower(strip(s))

----------------------------------------------------------------------------
\* Producto and the dict operations used on _productos_por_id

Producto(id, nombre, cantidad, precio) ==
    [id |-> id, nombre |-> nombre, cantidad |-> cantidad, precio |-> precio]

\* What dict.get returns for a missing key (None): no Producto has this shape.
NoneProducto == [id |-> None, nombre |-> <<>>, cantidad |-> None, precio |-> None]

claves(d) == { d[i].id : i \in DOMAIN d }

dict_get(d, k) ==
    IF k \in claves(d) THEN d[CHOOSE i \in DOMAIN d : d[i].id = k] ELSE NoneProducto

dict_set(d, k, p) ==
    IF k \in claves(d) THEN [i \in DOMAIN d |-> IF d[i].id = k THEN p ELSE d[i]]
    ELSE Append(d, p)

dict_pop(d, k) == SelectSeq(d, LAMBDA p : p.id # k)

\* Producto.set_cantidad and set_precio: the guard that raises ValueError, and
\* the assignment.
set_cantidad_lanza(nueva_cantidad) == nueva_cantidad < 0

set_cantidad(p, nueva_cantidad) == [p EXCEPT !.cantidad = nueva_cantidad]

set_precio_lanza(nuevo_precio) == nuevo_precio < 0

\* set_precio that assigns the value to cantidad.
set_precio_en_cantidad(p, nuevo_precio) == [p EXCEPT !.cantidad = nuevo_precio]

set_precio(p, nuevo_precio) == [p EXCEPT !.precio = nuevo_precio]

----------------------------------------------------------------------------
\* The in-memory structures as one value, and the index utilities

Memoria == [por_id |-> _productos_por_id, idx |-> _nombre_idx]

MemoriaVacia == [por_id |-> <<>>, idx |-> <<>>]

idx_get(idx, clave) == IF clave \in DOMAIN idx THEN idx[clave] ELSE {}

idx_pop(idx, clave) == [k \in DOMAIN idx \ {clave} |-> idx[k]]

\* _indexar with the raw name as the key of the name index.
_indexar_clave_cruda(m, p) ==
    IF p.id = None THEN m
    ELSE LET clave == p.nombre
             idx1 == IF clave \notin DOMAIN m.idx THEN m.idx @@ (clave :> {}) ELSE m.idx
         IN [por_id |-> dict_set(m.por_id, p.id, p),
             idx |-> [idx1 EXCEPT ![clave] = @ \cup {p.id}]]

\* _indexar without self._productos_por_id[p.id] = p.
_indexar_sin_dict(m, p) ==
    IF p.id = None THEN m
    ELSE LET clave == _normaliza(p.nombre)
             idx1 == IF clave \notin DOMAIN m.idx THEN m.idx @@ (clave :> {}) ELSE m.idx
         IN [por_id |-> m.por_id, idx |-> [idx1 EXCEPT ![clave] = @ \cup {p.id}]]

_indexar(m, p) ==
    IF p.id = None THEN m
    ELSE LET clave == _normaliza(p.nombre)
             idx1 == IF clave \notin DOMAIN m.idx THEN m.idx @@ (clave :> {}) ELSE m.idx
         IN [por_id |-> dict_set(m.por_id, p.id, p),
             idx |-> [idx1 EXCEPT ![clave] = @ \cup {p.id}]]

\* _desindexar without self._productos_por_id.pop(p.id, None).
_desindexar_sin_pop(m, p) ==
    IF p.id = None THEN m
    ELSE LET clave == _normaliza(p.nombre)
         IN IF clave \in DOMAIN m.idx
            THEN LET idx1 == [m.idx EXCEPT ![clave] = @ \ {p.id}]
                 IN [por_id |-> m.por_id,
                     idx |-> IF idx1[clave] = {} THEN idx_pop(idx1, clave) ELSE idx1]
            ELSE m

\* _desindexar without the pop of a name-set that has become empty.
_desindexar_deja_vacio(m, p) ==
    IF p.id = None THEN m
    ELSE LET clave == _normaliza(p.nombre)
             por_id1 == dict_pop(m.por_id, p.id)
         IN IF clave \in DOMAIN m.idx
            THEN [por_id |-> por_id1, idx |-> [m.idx EXCEPT ![clave] = @ \ {p.id}]]
            ELSE [por_id |-> por_id1, idx |-> m.idx]

_desindexar(m, p) ==
    IF p.id = None THEN m
    ELSE LET clave == _normaliza(p.nombre)
             por_id1 == dict_pop(m.por_id, p.id)
         IN IF clave \in DOMAIN m.idx
            THEN LET idx1 == [m.idx EXCEPT ![clave] = @ \ {p.id}]
                 IN [por_id |-> por_id1,
                     idx |-> IF idx1[clave] = {} THEN idx_pop(idx1, clave) ELSE idx1]
            ELSE [por_id |-> por_id1, idx |-> m.idx]

\* _reindexar_nombre that leaves the id in the set of the previous name.
_reindexar_nombre_sin_quitar(m, p, nombre_anterior) ==
    IF p.id = None THEN m ELSE _indexar(m, p)

\* _reindexar_nombre that pops the set of the previous name whole, with the
\* ids of the other items in it.
_reindexar_nombre_quita_clave(m, p, nombre_anterior) ==
    IF p.id = None THEN m
    ELSE _indexar([por_id |-> m.por_id, idx |-> idx_pop(m.idx, _normaliza(nombre_anterior))], p)

_reindexar_nombre(m, p, nombre_anterior) ==
    IF p.id = None THEN m
    ELSE LET clave_ant == _normaliza(nombre_anterior)
             idx1 == IF clave_ant \in DOMAIN m.idx
                     THEN LET idx2 == [m.idx EXCEPT ![clave_ant] = @ \ {p.id}]
                          IN IF idx2[clave_ant] = {} THEN idx_pop(idx2, clave_ant) ELSE idx2
                     ELSE m.idx
         IN _indexar([por_id |-> m.por_id, idx |-> idx1], p)

----------------------------------------------------------------------------
\* The table productos: rows keyed by id, and the AUTOINCREMENT counter

Fila(nombre, cantidad, precio) == [nombre |-> nombre, cantidad |-> cantidad, precio |-> precio]

TablaVacia == [productos |-> <<>>, seq |-> 0]

\* NOT NULL and CHECK (cantidad >= 0), CHECK (precio >= 0)
cumple_check(cantidad, precio) == cantidad >= 0 /\ precio >= 0

Max(S) == CHOOSE x \in S : \A y \in S : y <= x

\* The next rowid of a table without AUTOINCREMENT: one more than the largest
\* rowid now in the table.
siguiente_id_sin_autoincrement(t) == Max(DOMAIN t.productos \cup {0}) + 1

siguiente_id(t) == Max(DOMAIN t.productos \cup {t.seq}) + 1

sql_insert(t, nombre, cantidad, precio) ==
    LET id == siguiente_id(t)
    IN [productos |-> t.productos @@ (id :> Fila(nombre, cantidad, precio)), seq |-> id]

sql_delete(t, id) ==
    [t EXCEPT !.productos = [k \in DOMAIN t.productos \ {id} |-> t.productos[k]]]

sql_update_cantidad(t, id, cantidad) ==
    IF id \in DOMAIN t.productos THEN [t EXCEPT !.productos[id].cantidad = cantidad] ELSE t

sql_update_precio(t, id, precio) ==
    IF id \in DOMAIN t.productos THEN [t EXCEPT !.productos[id].precio = precio] ELSE t

sql_update_nombre(t, id, nombre) ==
    IF id \in DOMAIN t.productos THEN [t EXCEPT !.productos[id].nombre = nombre] ELSE t

----------------------------------------------------------------------------
\* Loading, and the reads

\* The orders in which the SELECT of _cargar_desde_db, which has no ORDER BY, can
\* return the rows of t: SQLite scans the table by ascending rowid, or by
\* descending rowid under reverse_unordered_selects; SQL promises neither.
select_ordenes(t) ==
    LET ids == DOMAIN t.productos
        n == Cardinality(ids)
        asc == CHOOSE s \in [1..n -> ids] : \A i, j \in 1..n : i < j => s[i] < s[j]
    IN {asc, [i \in 1..n |-> asc[n + 1 - i]]}

\* _cargar_desde_db: both structures cleared, then every row indexed in the
\* order the SELECT (which has no ORDER BY) returns them.
_cargar_desde_db(t, orden) ==
    LET RECURSIVE desde(_, _)
        desde(m, i) ==
            IF i > Len(orden) THEN m
            ELSE LET row == t.productos[orden[i]]
                 IN desde(_indexar(m, Producto(orden[i], row.nombre, row.cantidad, row.precio)),
                          i + 1)
    IN desde(MemoriaVacia, 1)

obtener_por_id(prod_id) == dict_get(_productos_por_id, prod_id)

valores(d) == { d[i] : i \in DOMAIN d }

\* The lookup self._productos_por_id[prod_id] of the exact tier raises KeyError
\* for an id of the name index that the dict does not hold.
buscar_por_nombre_KeyError(consulta) ==
    \E prod_id \in idx_get(_nombre_idx, _normaliza(consulta)) :
        prod_id \notin claves(_productos_por_id)

\* buscar_por_nombre without `if not encontrados`: both tiers in one list.
buscar_por_nombre_combinado(consulta) ==
    LET q == _normaliza(consulta)
    IN { dict_get(_productos_por_id, prod_id) : prod_id \in idx_get(_nombre_idx, q) }
       \cup { p \in valores(_productos_por_id) : contiene(q, _normaliza(p.nombre)) }

\* buscar_por_nombre: the Productos of the list it returns (the exact tier
\* iterates a set, so the order of the list is not determined).
buscar_por_nombre(consulta) ==
    LET q == _normaliza(consulta)
        encontrados == { dict_get(_productos_por_id, prod_id) :
                           prod_id \in idx_get(_nombre_idx, q) }
    IN IF encontrados # {} THEN encontrados
       ELSE { p \in valores(_productos_por_id) : contiene(q, _normaliza(p.nombre)) }

\* The lists buscar_por_nombre can return: the exact tier appends in the
\* iteration order of a set, which Python leaves open; the substring tier
\* appends in the order of the dict.
buscar_por_nombre_listas(consulta) ==
    LET q == _normaliza(consulta)
        ids == idx_get(_nombre_idx, q)
        n == Cardinality(ids)
    IN IF ids # {}
       THEN { [i \in 1..n |-> dict_get(_productos_por_id, o[i])] :
                o \in { f \in [1..n -> ids] : \A i, j \in 1..n : i # j => f[i] # f[j] } }
       ELSE { SelectSeq(_productos_por_id, LAMBDA p : contiene(q, _normaliza(p.nombre))) }

\* key=lambda p: p.id or 0
clave_orden(p) == IF p.id = None \/ p.id = 0 THEN 0 ELSE p.id

\* sorted(): stable, ascending by key
sorted(d) ==
    LET RECURSIVE insertar(_, _)
        insertar(s, p) ==
            IF s = <<>> THEN <<p>>
            ELSE IF clave_orden(p) < clave_orden(Head(s)) THEN <<p>> \o s
            ELSE <<Head(s)>> \o insertar(Tail(s), p)
        RECURSIVE ordenar(_, _)
        ordenar(s, i) == IF i > Len(d) THEN s ELSE ordenar(insertar(s, d[i]), i + 1)
    IN ordenar(<<>>, 1)

\* listar_todos without sorted(): the dict's own order.
listar_todos_sin_ordenar == _productos_por_id

listar_todos == sorted(_productos_por_id)

----------------------------------------------------------------------------
\* The menu loop and the method calls

Nada == [op |-> "", prod_id |-> None, nombre |-> <<>>, valor |-> None,
         precio |-> None, lastrowid |-> None, nombre_anterior |-> <<>>]

Marco(op, prod_id, nombre, valor, precio) ==
    [Nada EXCEPT !.op = op, !.prod_id = prod_id, !.nombre = nombre, !.valor = valor,
                 !.precio = precio]

Resultado(ret, p) == [ret |-> ret, p |-> p, lista |-> <<>>]

\* The list a read gave menu().
ResultadoLista(lista) == [ret |-> "lista", p |-> NoneProducto, lista |-> lista]

SinResultado == Resultado("", NoneProducto)

memoria_igual == UNCHANGED <<_productos_por_id, _nombre_idx>>

\* What no step of a call that is still running changes.
historia_igual == UNCHANGED <<previo, asignados, eliminados>>

\* The call returns, or raises ValueError, which menu() catches: menu() prints
\* the outcome.
retorna(ret, p) ==
    /\ pc' = "retorno"
    /\ resultado' = Resultado(ret, p)

\* The call returns before any statement was executed.
retorna_sin_escribir(marco, ret) ==
    /\ retorna(ret, NoneProducto)
    /\ llamada' = marco
    /\ UNCHANGED <<disco, conn, traza>>
    /\ memoria_igual

\* conn.execute or conn.commit raises sqlite3.Error, which menu() does not
\* catch: the loop is left and only the finally clause remains.
lanza_sqlite3_Error(marco) ==
    /\ pc' = "error"
    /\ llamada' = marco
    /\ resultado' = Resultado("sqlite3.Error", NoneProducto)
    /\ UNCHANGED <<disco, conn, traza>>
    /\ memoria_igual

\* conn.execute succeeded: the statement's effect is in the connection's open
\* transaction, and the method goes on to conn.commit().
ejecutado(t, marco) ==
    /\ conn' = t
    /\ pc' = "commit"
    /\ llamada' = marco
    /\ traza' = Append(traza, "execute")
    /\ UNCHANGED <<disco, resultado>>
    /\ memoria_igual

Init ==
    /\ disco = TablaVacia
    /\ conn = TablaVacia
    /\ _productos_por_id = <<>>
    /\ _nombre_idx = <<>>
    /\ pc = "menu"
    /\ llamada = Nada
    /\ resultado = SinResultado
    /\ previo = <<>>
    /\ traza = <<>>
    /\ asignados = {}
    /\ eliminados = {}

\* anadir_producto that indexes the new Producto before conn.commit().
anadir_producto_indexa_antes(nombre, cantidad, precio) ==
    LET marco == Marco("anadir_producto", None, nombre, cantidad, precio)
        p == Producto(siguiente_id(conn), strip(nombre), cantidad, precio)
        m == _indexar(Memoria, p)
    IN /\ pc = "menu"
       /\ historia_igual
       /\ IF cantidad < 0 \/ precio < 0
          THEN retorna_sin_escribir(marco, "ValueError")
          ELSE /\ siguiente_id(conn) <= MaxSeq
               /\ \E falla \in BOOLEAN :
                    IF falla \/ ~cumple_check(cantidad, precio)
                    THEN lanza_sqlite3_Error(marco)
                    ELSE /\ conn' = sql_insert(conn, strip(nombre), cantidad, precio)
                         /\ pc' = "commit"
                         /\ llamada' = [marco EXCEPT !.lastrowid = siguiente_id(conn)]
                         /\ traza' = Append(traza, "execute")
                         /\ _productos_por_id' = m.por_id
                         /\ _nombre_idx' = m.idx
                         /\ UNCHANGED <<disco, resultado>>

anadir_producto(nombre, cantidad, precio) ==
    LET marco == Marco("anadir_producto", None, nombre, cantidad, precio)
    IN /\ pc = "menu"
       /\ historia_igual
       /\ IF cantidad < 0 \/ precio < 0
          THEN retorna_sin_escribir(marco, "ValueError")
          ELSE /\ siguiente_id(conn) <= MaxSeq
               /\ \E falla \in BOOLEAN :
                    IF falla \/ ~cumple_check(cantidad, precio)
                    THEN lanza_sqlite3_Error(marco)
                    ELSE ejecutado(sql_insert(conn, strip(nombre), cantidad, precio),
                                   [marco EXCEPT !.lastrowid = siguiente_id(conn)])

\* eliminar_producto that executes the DELETE before it looks the id up.
eliminar_producto_ejecuta_antes(prod_id) ==
    LET marco == Marco("eliminar_producto", prod_id, <<>>, None, None)
    IN /\ pc = "menu"
       /\ historia_igual
       /\ \E falla \in BOOLEAN :
            IF falla
            THEN lanza_sqlite3_Error(marco)
            ELSE IF obtener_por_id(prod_id) = NoneProducto
            THEN /\ retorna("False", NoneProducto)
                 /\ llamada' = marco
                 /\ conn' = sql_delete(conn, prod_id)
                 /\ traza' = Append(traza, "execute")
                 /\ UNCHANGED disco
                 /\ memoria_igual
            ELSE ejecutado(sql_delete(conn, prod_id), marco)

eliminar_producto(prod_id) ==
    LET marco == Marco("eliminar_producto", prod_id, <<>>, None, None)
    IN /\ pc = "menu"
       /\ historia_igual
       /\ IF obtener_por_id(prod_id) = NoneProducto
          THEN retorna_sin_escribir(marco, "False")
          ELSE \E falla \in BOOLEAN :
                 IF falla
                 THEN lanza_sqlite3_Error(marco)
                 ELSE ejecutado(sql_delete(conn, prod_id), marco)

\* actualizar_cantidad with the lookup before the validation.
actualizar_cantidad_busca_primero(prod_id, nueva_cantidad) ==
    LET marco == Marco("actualizar_cantidad", prod_id, <<>>, nueva_cantidad, None)
    IN /\ pc = "menu"
       /\ historia_igual
       /\ IF obtener_por_id(prod_id) = NoneProducto
          THEN retorna_sin_escribir(marco, "False")
          ELSE IF nueva_cantidad < 0
          THEN retorna_sin_escribir(marco, "ValueError")
          ELSE \E falla \in BOOLEAN :
                 IF falla \/ ~cumple_check(nueva_cantidad, 0)
                 THEN lanza_sqlite3_Error(marco)
                 ELSE ejecutado(sql_update_cantidad(conn, prod_id, nueva_cantidad), marco)

\* actualizar_cantidad that sets the Producto's cantidad before the UPDATE.
actualizar_cantidad_memoria_primero(prod_id, nueva_cantidad) ==
    LET marco == Marco("actualizar_cantidad", prod_id, <<>>, nueva_cantidad, None)
    IN /\ pc = "menu"
       /\ historia_igual
       /\ IF nueva_cantidad < 0
          THEN retorna_sin_escribir(marco, "ValueError")
          ELSE IF obtener_por_id(prod_id) = NoneProducto
          THEN retorna_sin_escribir(marco, "False")
          ELSE \E falla \in BOOLEAN :
                 /\ _productos_por_id' =
                        dict_set(_productos_por_id, prod_id,
                                 set_cantidad(obtener_por_id(prod_id), nueva_cantidad))
                 /\ UNCHANGED _nombre_idx
                 /\ IF falla \/ ~cumple_check(nueva_cantidad, 0)
                    THEN /\ pc' = "error"
                         /\ llamada' = marco
                         /\ resultado' = Resultado("sqlite3.Error", NoneProducto)
                         /\ UNCHANGED <<disco, conn, traza>>
                    ELSE /\ conn' = sql_update_cantidad(conn, prod_id, nueva_cantidad)
                         /\ pc' = "commit"
                         /\ llamada' = marco
                         /\ traza' = Append(traza, "execute")
                         /\ UNCHANGED <<disco, resultado>>

actualizar_cantidad(prod_id, nueva_cantidad) ==
    LET marco == Marco("actualizar_cantidad", prod_id, <<>>, nueva_cantidad, None)
    IN /\ pc = "menu"
       /\ historia_igual
       /\ IF nueva_cantidad < 0
          THEN retorna_sin_escribir(marco, "ValueError")
          ELSE IF obtener_por_id(prod_id) = NoneProducto
          THEN retorna_sin_escribir(marco, "False")
          ELSE \E falla \in BOOLEAN :
                 IF falla \/ ~cumple_check(nueva_cantidad, 0)
                 THEN lanza_sqlite3_Error(marco)
                 ELSE ejecutado(sql_update_cantidad(conn, prod_id, nueva_cantidad), marco)

\* actualizar_precio that takes a negative precio for 0 instead of raising.
actualizar_precio_recorta(prod_id, nuevo_precio) ==
    LET marco == Marco("actualizar_precio", prod_id, <<>>, None, nuevo_precio)
        recortado == IF nuevo_precio < 0 THEN 0 ELSE nuevo_precio
    IN /\ pc = "menu"
       /\ historia_igual
       /\ IF obtener_por_id(prod_id) = NoneProducto
          THEN retorna_sin_escribir(marco, "False")
          ELSE \E falla \in BOOLEAN :
                 IF falla \/ ~cumple_check(0, recortado)
                 THEN lanza_sqlite3_Error(marco)
                 ELSE ejecutado(sql_update_precio(conn, prod_id, recortado), marco)

actualizar_precio(prod_id, nuevo_precio) ==
    LET marco == Marco("actualizar_precio", prod_id, <<>>, None, nuevo_precio)
    IN /\ pc = "menu"
       /\ historia_igual
       /\ IF nuevo_precio < 0
          THEN retorna_sin_escribir(marco, "ValueError")
          ELSE IF obtener_por_id(prod_id) = NoneProducto
          THEN retorna_sin_escribir(marco, "False")
          ELSE \E falla \in BOOLEAN :
                 IF falla \/ ~cumple_check(0, nuevo_precio)
                 THEN lanza_sqlite3_Error(marco)
                 ELSE ejecutado(sql_update_precio(conn, prod_id, nuevo_precio), marco)

actualizar_nombre(prod_id, nuevo_nombre) ==
    LET marco == Marco("actualizar_nombre", prod_id, nuevo_nombre, None, None)
    IN /\ pc = "menu"
       /\ historia_igual
       /\ IF obtener_por_id(prod_id) = NoneProducto
          THEN retorna_sin_escribir(marco, "False")
          ELSE \E falla \in BOOLEAN :
                 IF falla
                 THEN lanza_sqlite3_Error(marco)
                 ELSE ejecutado(sql_update_nombre(conn, prod_id, strip(nuevo_nombre)),
                                [marco EXCEPT !.nombre_anterior =
                                                  obtener_por_id(prod_id).nombre])

\* self.conn.commit(): the open transaction becomes the file's content, or the
\* commit raises and the file is as it was.
commit ==
    /\ pc = "commit"
    /\ historia_igual
    /\ \E falla \in BOOLEAN :
         IF falla
         THEN lanza_sqlite3_Error(llamada)
         ELSE /\ disco' = conn
              /\ pc' = "indexar"
              /\ traza' = Append(traza, "commit")
              /\ UNCHANGED <<conn, llamada, resultado>>
              /\ memoria_igual

\* The rest of each method, after its commit.

\* anadir_producto that builds its Producto from nombre, not nombre.strip().
anadir_producto_indexar_sin_strip ==
    /\ pc = "indexar"
    /\ llamada.op = "anadir_producto"
    /\ LET p == Producto(llamada.lastrowid, llamada.nombre, llamada.valor, llamada.precio)
           m == _indexar(Memoria, p)
       IN /\ _productos_por_id' = m.por_id
          /\ _nombre_idx' = m.idx
          /\ retorna("Producto", p)
          /\ asignados' = asignados \cup {p.id}
    /\ UNCHANGED <<disco, conn, llamada, previo, traza, eliminados>>

anadir_producto_indexar ==
    /\ pc = "indexar"
    /\ llamada.op = "anadir_producto"
    /\ LET p == Producto(llamada.lastrowid, strip(llamada.nombre), llamada.valor,
                         llamada.precio)
           m == _indexar(Memoria, p)
       IN /\ _productos_por_id' = m.por_id
          /\ _nombre_idx' = m.idx
          /\ retorna("Producto", p)
          /\ asignados' = asignados \cup {p.id}
    /\ UNCHANGED <<disco, conn, llamada, previo, traza, eliminados>>

\* eliminar_producto that returns True without self._desindexar(p).
eliminar_producto_sin_desindexar ==
    /\ pc = "indexar"
    /\ llamada.op = "eliminar_producto"
    /\ memoria_igual
    /\ retorna("True", NoneProducto)
    /\ eliminados' = eliminados \cup {llamada.prod_id}
    /\ UNCHANGED <<disco, conn, llamada, previo, traza, asignados>>

eliminar_producto_desindexar ==
    /\ pc = "indexar"
    /\ llamada.op = "eliminar_producto"
    /\ LET m == _desindexar(Memoria, obtener_por_id(llamada.prod_id))
       IN /\ _productos_por_id' = m.por_id
          /\ _nombre_idx' = m.idx
    /\ retorna("True", NoneProducto)
    /\ eliminados' = eliminados \cup {llamada.prod_id}
    /\ UNCHANGED <<disco, conn, llamada, previo, traza, asignados>>

actualizar_cantidad_set ==
    /\ pc = "indexar"
    /\ llamada.op = "actualizar_cantidad"
    /\ IF set_cantidad_lanza(llamada.valor)
       THEN /\ retorna("ValueError", NoneProducto)
            /\ memoria_igual
       ELSE /\ _productos_por_id' =
                  dict_set(_productos_por_id, llamada.prod_id,
                           set_cantidad(obtener_por_id(llamada.prod_id), llamada.valor))
            /\ UNCHANGED _nombre_idx
            /\ retorna("True", NoneProducto)
    /\ UNCHANGED <<disco, conn, llamada, previo, traza, asignados, eliminados>>

actualizar_precio_set ==
    /\ pc = "indexar"
    /\ llamada.op = "actualizar_precio"
    /\ IF set_precio_lanza(llamada.precio)
       THEN /\ retorna("ValueError", NoneProducto)
            /\ memoria_igual
       ELSE /\ _productos_por_id' =
                  dict_set(_productos_por_id, llamada.prod_id,
                           set_precio(obtener_por_id(llamada.prod_id), llamada.precio))
            /\ UNCHANGED _nombre_idx
            /\ retorna("True", NoneProducto)
    /\ UNCHANGED <<disco, conn, llamada, previo, traza, asignados, eliminados>>

actualizar_nombre_reindexar ==
    /\ pc = "indexar"
    /\ llamada.op = "actualizar_nombre"
    /\ LET p == [obtener_por_id(llamada.prod_id) EXCEPT !.nombre = strip(llamada.nombre)]
           m == _reindexar_nombre([por_id |-> dict_set(_productos_por_id, p.id, p),
                                   idx |-> _nombre_idx],
                                  p, llamada.nombre_anterior)
       IN /\ _productos_por_id' = m.por_id
          /\ _nombre_idx' = m.idx
    /\ retorna("True", NoneProducto)
    /\ UNCHANGED <<disco, conn, llamada, previo, traza, asignados, eliminados>>

\* The reads.  Each is one step: no statement of a read touches conn or
\* assigns to the dict, to the name index or to a Producto.

\* A read has returned.
leido(marco, r) ==
    /\ pc' = "retorno"
    /\ llamada' = marco
    /\ resultado' = r
    /\ UNCHANGED <<disco, conn, traza>>
    /\ memoria_igual
    /\ historia_igual

llamar_obtener_por_id(prod_id) ==
    /\ pc = "menu"
    /\ LET p == obtener_por_id(prod_id)
       IN leido(Marco("obtener_por_id", prod_id, <<>>, None, None),
                Resultado(IF p = NoneProducto THEN "None" ELSE "Producto", p))

\* buscar_por_nombre with self._nombre_idx.setdefault(q, set()) for
\* self._nombre_idx.get(q, set()): a query that is no key becomes one.
llamar_buscar_por_nombre_setdefault(consulta) ==
    /\ pc = "menu"
    /\ \E encontrados \in buscar_por_nombre_listas(consulta) :
         /\ pc' = "retorno"
         /\ llamada' = Marco("buscar_por_nombre", None, consulta, None, None)
         /\ resultado' = ResultadoLista(encontrados)
    /\ _nombre_idx' = IF _normaliza(consulta) \in DOMAIN _nombre_idx THEN _nombre_idx
                      ELSE _nombre_idx @@ (_normaliza(consulta) :> {})
    /\ UNCHANGED <<disco, conn, traza, _productos_por_id>>
    /\ historia_igual

llamar_buscar_por_nombre(consulta) ==
    /\ pc = "menu"
    /\ \E encontrados \in buscar_por_nombre_listas(consulta) :
         leido(Marco("buscar_por_nombre", None, consulta, None, None),
               ResultadoLista(encontrados))

llamar_listar_todos ==
    /\ pc = "menu"
    /\ leido(Marco("listar_todos", None, <<>>, None, None), ResultadoLista(listar_todos))

\* menu() prints what the call gave and asks for the next option.
imprimir ==
    /\ pc = "retorno"
    /\ pc' = "menu"
    /\ llamada' = Nada
    /\ resultado' = SinResultado
    /\ previo' = disco.productos
    /\ traza' = <<>>
    /\ UNCHANGED <<disco, conn, asignados, eliminados>>
    /\ memoria_igual

\* menu() ends (option 0, or an exception it does not catch): the finally
\* clause closes the connection, which rolls an open transaction back, and the
\* process, with its Inventario, is gone.
cerrar ==
    /\ pc \in {"menu", "error"}
    /\ pc' = "cerrado"
    /\ conn' = disco
    /\ _productos_por_id' = <<>>
    /\ _nombre_idx' = <<>>
    /\ llamada' = Nada
    /\ resultado' = SinResultado
    /\ previo' = disco.productos
    /\ traza' = <<>>
    /\ UNCHANGED <<disco, asignados, eliminados>>

\* The program is started again on the same file: Inventario.__init__ (the
\* table exists already) and _cargar_desde_db.
\* Inventario.__init__ without self._cargar_desde_db().
Inventario_sin_cargar ==
    /\ pc = "cerrado"
    /\ pc' = "menu"
    /\ memoria_igual
    /\ UNCHANGED <<disco, conn, llamada, resultado, previo, traza, asignados, eliminados>>

Inventario ==
    /\ pc = "cerrado"
    /\ pc' = "menu"
    /\ \E orden \in select_ordenes(conn) :
         LET m == _cargar_desde_db(conn, orden)
         IN /\ _productos_por_id' = m.por_id
            /\ _nombre_idx' = m.idx
    /\ UNCHANGED <<disco, conn, llamada, resultado, previo, traza, asignados, eliminados>>

Next ==
    \/ \E nombre \in Nombres, cantidad \in Cantidades, precio \in Precios :
         anadir_producto(nombre, cantidad, precio)
    \/ \E prod_id \in Ids : eliminar_producto(prod_id)
    \/ \E prod_id \in Ids, nueva_cantidad \in Cantidades :
         actualizar_cantidad(prod_id, nueva_cantidad)
    \/ \E prod_id \in Ids, nuevo_precio \in Precios :
         actualizar_precio(prod_id, nuevo_precio)
    \/ \E prod_id \in Ids, nuevo_nombre \in Nombres :
         actualizar_nombre(prod_id, nuevo_nombre)
    \/ \E prod_id \in Ids : llamar_obtener_por_id(prod_id)
    \/ \E consulta \in Consultas : llamar_buscar_por_nombre(consulta)
    \/ llamar_listar_todos
    \/ commit
    \/ anadir_producto_indexar
    \/ eliminar_producto_desindexar
    \/ actualizar_cantidad_set
    \/ actualizar_precio_set
    \/ actualizar_nombre_reindexar
    \/ imprimir
    \/ cerrar
    \/ Inventario

Spec == Init /\ [][Next]_vars

----------------------------------------------------------------------------
\* Properties

fila_de(p) == Fila(p.nombre, p.cantidad, p.precio)

ids_de(ps) == { p.id : p \in ps }

NombresGuardados == { strip(n) : n \in Nombres }

\* The dict holds exactly the rows of table t, field by field.
Converge(t) ==
    /\ claves(_productos_por_id) = DOMAIN t.productos
    /\ \A id \in DOMAIN t.productos : fila_de(obtener_por_id(id)) = t.productos[id]

almacen_igual == UNCHANGED <<disco, conn>>

\* C1: whenever no method call is in progress (at the menu, or when a call
\* has just returned), the ids of _productos_por_id are the ids of the rows of
\* productos, and each Producto's nombre, cantidad and precio are its row's.
C1_Convergencia ==
    pc \in {"menu", "retorno"} => Converge(conn) /\ Converge(disco)

C1_Testigo ==
    /\ pc = "retorno"
    /\ llamada.op = "actualizar_nombre"
    /\ resultado.ret = "True"
    /\ Len(_productos_por_id) = 2
    /\ strip(llamada.nombre) # llamada.nombre_anterior

\* C2 as stated: when actualizar_nombre(prod_id, X) returns True,
\* buscar_por_nombre(X) holds the item and buscar_por_nombre of the previous
\* name does not.
C2_RenombrarOriginal ==
    [][\A prod_id \in Ids, X \in Nombres, anterior \in NombresGuardados :
         (/\ actualizar_nombre_reindexar
          /\ llamada.prod_id = prod_id
          /\ llamada.nombre = X
          /\ llamada.nombre_anterior = anterior)
         => /\ resultado'.ret = "True"
            /\ prod_id \in ids_de(buscar_por_nombre(X))'
            /\ prod_id \notin ids_de(buscar_por_nombre(anterior))']_vars

\* C2 amended: when actualizar_nombre(prod_id, X) returns True,
\* buscar_por_nombre(X) holds the item; buscar_por_nombre of the previous name
\* leaves it out exactly when the two names differ once normalized and either
\* another item has the previous normalized name or that name is no substring
\* of the new normalized name.
C2_Renombrar ==
    [][\A prod_id \in Ids, X \in Nombres, anterior \in NombresGuardados :
         (/\ actualizar_nombre_reindexar
          /\ llamada.prod_id = prod_id
          /\ llamada.nombre = X
          /\ llamada.nombre_anterior = anterior)
         => LET otro == \E p \in valores(_productos_por_id) :
                            p.id # prod_id /\ _normaliza(p.nombre) = _normaliza(anterior)
            IN /\ resultado'.ret = "True"
               /\ prod_id \in ids_de(buscar_por_nombre(X))'
               /\ (prod_id \notin ids_de(buscar_por_nombre(anterior))')
                  <=> (/\ _normaliza(X) # _normaliza(anterior)
                       /\ otro \/ ~contiene(_normaliza(anterior), _normaliza(X)))]_vars

C2_Testigo ==
    /\ pc = "retorno"
    /\ llamada.op = "actualizar_nombre"
    /\ resultado.ret = "True"
    /\ llamada.prod_id \in ids_de(buscar_por_nombre(llamada.nombre))
    /\ llamada.prod_id \notin ids_de(buscar_por_nombre(llamada.nombre_anterior))

\* What a rejected call leaves: ValueError, given at once, nothing written.
Rechazada ==
    /\ pc' = "retorno"
    /\ resultado'.ret = "ValueError"
    /\ almacen_igual
    /\ memoria_igual

\* C3: anadir_producto with a negative cantidad or precio, actualizar_cantidad
\* with a negative cantidad and actualizar_precio with a negative precio raise
\* ValueError for every id, present or not, with no statement executed and the
\* table, _productos_por_id and _nombre_idx as they were.
C3_RechazoNegativos ==
    [][/\ \A nombre \in Nombres, cantidad \in Cantidades, precio \in Precios :
            ((cantidad < 0 \/ precio < 0) /\ anadir_producto(nombre, cantidad, precio))
            => Rechazada
       /\ \A prod_id \in Ids, v \in Cantidades :
            (v < 0 /\ actualizar_cantidad(prod_id, v)) => Rechazada
       /\ \A prod_id \in Ids, v \in Precios :
            (v < 0 /\ actualizar_precio(prod_id, v)) => Rechazada]_vars

C3_Testigo ==
    /\ pc = "retorno"
    /\ resultado.ret = "ValueError"
    /\ llamada.op = "actualizar_cantidad"
    /\ llamada.valor < 0
    /\ llamada.prod_id \notin claves(_productos_por_id)
    /\ Len(_productos_por_id) >= 1

\* What a call on an absent id leaves: False, given at once, nothing written.
NoEncontrado ==
    /\ pc' = "retorno"
    /\ resultado'.ret = "False"
    /\ almacen_igual
    /\ memoria_igual

\* C4: eliminar_producto, actualizar_cantidad and actualizar_precio (value not
\* negative) and actualizar_nombre on an id that _productos_por_id does not
\* hold return False with no statement executed and nothing changed; and when
\* eliminar_producto returns True the id is no longer held, so that a second
\* eliminar_producto of it returns False.
C4_NoEncontrado ==
    [][/\ \A prod_id \in Ids :
            prod_id \notin claves(_productos_por_id)
            => /\ eliminar_producto(prod_id) => NoEncontrado
               /\ \A v \in Cantidades :
                    (v >= 0 /\ actualizar_cantidad(prod_id, v)) => NoEncontrado
               /\ \A v \in Precios :
                    (v >= 0 /\ actualizar_precio(prod_id, v)) => NoEncontrado
               /\ \A nombre \in Nombres :
                    actualizar_nombre(prod_id, nombre) => NoEncontrado
       /\ \A prod_id \in Ids :
            (eliminar_producto_desindexar /\ llamada.prod_id = prod_id)
            => /\ resultado'.ret = "True"
               /\ prod_id \notin claves(_productos_por_id)']_vars

\* eliminar_producto has returned False for an id that was assigned before
\* (and so was deleted), with another item still held.
C4_Testigo ==
    /\ pc = "retorno"
    /\ llamada.op = "eliminar_producto"
    /\ resultado.ret = "False"
    /\ llamada.prod_id <= conn.seq
    /\ Len(_productos_por_id) >= 1

\* The items among d whose normalized name (norm[i] for d[i]) is q, and those
\* whose normalized name contains q.
exactos(d, norm, q) == { d[i] : i \in { j \in DOMAIN d : norm[j] = q } }

parciales(d, norm, q) == { d[i] : i \in { j \in DOMAIN d : contiene(q, norm[j]) } }

nombres_normalizados(d) == [i \in DOMAIN d |-> _normaliza(d[i].nombre)]

\* C5: at the menu, where buscar_por_nombre is called (every content of
\* memory is there at some time), for every query it gives exactly the items
\* whose normalized name is the normalized query when there is one, and
\* otherwise exactly the items whose normalized name contains the normalized
\* query.
C5_NivelesExcluyentes ==
    pc = "menu"
    => LET d == _productos_por_id
           norm == nombres_normalizados(d)
       IN \A consulta \in Consultas :
            LET q == _normaliza(consulta)
                e == exactos(d, norm, q)
            IN buscar_por_nombre(consulta) = IF e # {} THEN e ELSE parciales(d, norm, q)

\* An exact match exists while another item matches by substring only.
C5_Testigo ==
    /\ pc = "menu"
    /\ LET d == _productos_por_id
           norm == nombres_normalizados(d)
       IN \E consulta \in Consultas :
            LET q == _normaliza(consulta)
                e == exactos(d, norm, q)
            IN /\ e # {}
               /\ parciales(d, norm, q) # e
               /\ buscar_por_nombre(consulta) = e

\* C6: when anadir_producto has returned a Producto, obtener_por_id of its id
\* gives a Producto with the same id, nombre, cantidad and precio.
C6_IdaYVuelta ==
    (pc = "retorno" /\ llamada.op = "anadir_producto" /\ resultado.ret = "Producto")
    => /\ resultado.p.id # None
       /\ obtener_por_id(resultado.p.id) = resultado.p

C6_Testigo ==
    /\ pc = "retorno"
    /\ llamada.op = "anadir_producto"
    /\ resultado.ret = "Producto"
    /\ resultado.p.nombre # llamada.nombre
    /\ Len(_productos_por_id) = 2

\* C7: listar_todos gives every Producto of _productos_por_id exactly once, by
\* strictly ascending id, whatever the order of the dict.
C7_ListaOrdenada ==
    LET l == listar_todos
    IN /\ Len(l) = Len(_productos_por_id)
       /\ { l[i] : i \in DOMAIN l } = valores(_productos_por_id)
       /\ \A i, j \in DOMAIN l : i < j => l[i].id < l[j].id

\* The dict itself is not in ascending order of id.
C7_Testigo ==
    \E i, j \in DOMAIN _productos_por_id :
        i < j /\ _productos_por_id[i].id > _productos_por_id[j].id

\* No Producto in memory is ahead of the committed table: it is the committed
\* row, or, while a call is in progress, the row committed when the call began.
NoAdelantada ==
    \A p \in valores(_productos_por_id) :
        \/ p.id \in DOMAIN disco.productos /\ fila_de(p) = disco.productos[p.id]
        \/ /\ pc \in {"commit", "indexar"}
           /\ p.id \in DOMAIN previo
           /\ fila_de(p) = previo[p.id]

\* C8: at every step of every method, the Productos in memory are the
\* committed rows or the rows committed when the call began; and a method
\* changes _productos_por_id or _nombre_idx only after its statement has been
\* executed and committed, to what the committed table holds.
C8_AlmacenPrimero ==
    /\ []NoAdelantada
    /\ [][(/\ <<_productos_por_id, _nombre_idx>>' # <<_productos_por_id, _nombre_idx>>
           /\ pc # "cerrado"
           /\ pc' # "cerrado")
          => (pc = "indexar" /\ disco = conn /\ almacen_igual /\ Converge(disco)')]_vars

\* The UPDATE is committed and the Producto in memory still has the old cantidad.
C8_Testigo ==
    /\ pc = "indexar"
    /\ llamada.op = "actualizar_cantidad"
    /\ obtener_por_id(llamada.prod_id).cantidad # disco.productos[llamada.prod_id].cantidad
    /\ fila_de(obtener_por_id(llamada.prod_id)) = previo[llamada.prod_id]

\* C9: when conn.execute or conn.commit raises, the step that raises leaves
\* _productos_por_id, _nombre_idx and the committed table as they were, and
\* memory then holds exactly the committed rows, which are those committed when
\* the call began.
C9_SinMutacionParcial ==
    [][pc' = "error"
       => /\ memoria_igual
          /\ UNCHANGED disco
          /\ resultado'.ret = "sqlite3.Error"
          /\ disco'.productos = previo'
          /\ Converge(disco)']_vars

\* conn.commit() has raised in anadir_producto with the INSERT executed.
C9_Testigo ==
    /\ pc = "error"
    /\ llamada.op = "anadir_producto"
    /\ conn # disco
    /\ Len(_productos_por_id) >= 1

\* C10: every key of _nombre_idx holds exactly the ids of the Productos whose
\* normalized name it is, every Producto's normalized name is a key, and the
\* lookup of buscar_por_nombre never fails.
C10_IndiceExacto ==
    LET d == _productos_por_id
        norm == nombres_normalizados(d)
    IN /\ \A k \in DOMAIN _nombre_idx :
            _nombre_idx[k] = { d[i].id : i \in { j \in DOMAIN d : norm[j] = k } }
       /\ \A i \in DOMAIN d : norm[i] \in DOMAIN _nombre_idx
       /\ \A consulta \in Consultas : ~buscar_por_nombre_KeyError(consulta)

\* Two items with different names share one name-set.
C10_Testigo ==
    \E p, q \in valores(_productos_por_id) :
        /\ p.nombre # q.nombre
        /\ _normaliza(p.nombre) = _normaliza(q.nombre)
        /\ {p.id, q.id} \subseteq _nombre_idx[_normaliza(p.nombre)]

\* C11: no key of _nombre_idx holds the empty set, at any step of any sequence
\* of calls.
C11_SinConjuntosVacios ==
    \A k \in DOMAIN _nombre_idx : _nombre_idx[k] # {}

\* eliminar_producto has deleted the last item of a name (its key is gone)
\* while another name is still indexed.
C11_Testigo ==
    /\ pc = "retorno"
    /\ llamada.op = "eliminar_producto"
    /\ resultado.ret = "True"
    /\ _normaliza(previo[llamada.prod_id].nombre) \notin DOMAIN _nombre_idx
    /\ DOMAIN _nombre_idx # {}

\* The current call was given a negative cantidad or precio.
EntradaNegativa ==
    \/ llamada.op = "anadir_producto" /\ (llamada.valor < 0 \/ llamada.precio < 0)
    \/ llamada.op = "actualizar_cantidad" /\ llamada.valor < 0
    \/ llamada.op = "actualizar_precio" /\ llamada.precio < 0

\* C12: at every step, every Producto of _productos_por_id and every row of
\* productos (committed, or in the open transaction) has cantidad >= 0 and
\* precio >= 0; and a call given a negative value is never past its
\* validation: it has raised ValueError with no statement executed and with the
\* table and the Productos as they were when the call began (no 0 was put in
\* the value's place).
C12_NoNegativos ==
    /\ \A p \in valores(_productos_por_id) : p.cantidad >= 0 /\ p.precio >= 0
    /\ \A t \in {disco, conn} :
         \A id \in DOMAIN t.productos :
             t.productos[id].cantidad >= 0 /\ t.productos[id].precio >= 0
    /\ EntradaNegativa
       => /\ pc = "retorno"
          /\ resultado.ret = "ValueError"
          /\ traza = <<>>
          /\ conn = disco
          /\ disco.productos = previo
          /\ Converge(disco)

\* actualizar_precio has rejected a negative precio for an item whose precio
\* is 1, which is still 1.
C12_Testigo ==
    /\ pc = "retorno"
    /\ llamada.op = "actualizar_precio"
    /\ llamada.precio < 0
    /\ resultado.ret = "ValueError"
    /\ llamada.prod_id \in claves(_productos_por_id)
    /\ obtener_por_id(llamada.prod_id).precio = 1
    /\ disco.productos[llamada.prod_id].precio = 1

\* C13 as stated: at every step, every Producto of _productos_por_id and every
\* row of productos has a nombre that is not empty once stripped.
C13_NombreNoVacio ==
    /\ \A p \in valores(_productos_por_id) : strip(p.nombre) # <<>>
    /\ \A t \in {disco, conn} :
         \A id \in DOMAIN t.productos : strip(t.productos[id].nombre) # <<>>

\* The ids of the dict, position by position.
ids_en_orden(d) == [i \in DOMAIN d |-> d[i].id]

\* C14: the Producto anadir_producto returns has an id that is not None, that
\* no Producto of _productos_por_id had, and that is greater than every id
\* anadir_producto has returned before, those deleted since included; and
\* actualizar_cantidad, actualizar_precio and actualizar_nombre leave every id,
\* in the dict and in the table, as it was.
C14_AsignacionDeIds ==
    [][/\ anadir_producto_indexar
          => LET id == resultado'.p.id
             IN /\ resultado'.ret = "Producto"
                /\ id # None
                /\ id \notin claves(_productos_por_id)
                /\ \A a \in asignados \cup eliminados : a < id
                /\ id \in claves(_productos_por_id')
       /\ (actualizar_cantidad_set \/ actualizar_precio_set \/ actualizar_nombre_reindexar)
          => /\ ids_en_orden(_productos_por_id') = ids_en_orden(_productos_por_id)
             /\ obtener_por_id(llamada.prod_id)'.id = llamada.prod_id
             /\ DOMAIN disco'.productos = DOMAIN previo]_vars

\* anadir_producto has returned an id after a smaller id was deleted.
C14_Testigo ==
    /\ pc = "retorno"
    /\ llamada.op = "anadir_producto"
    /\ resultado.ret = "Producto"
    /\ eliminados # {}
    /\ \A e \in eliminados : e < resultado.p.id
    /\ resultado.p.id \in asignados

\* An id for which eliminar_producto has returned True is nowhere: not in the
\* table, not in _productos_por_id, in no set of _nombre_idx, and in nothing a
\* call has returned.
EliminadoAusente ==
    \A id \in eliminados :
        /\ id \notin DOMAIN disco.productos
        /\ id \notin DOMAIN conn.productos
        /\ obtener_por_id(id) = NoneProducto
        /\ \A k \in DOMAIN _nombre_idx : id \notin _nombre_idx[k]
        /\ resultado.p.id # id
        /\ \A i \in DOMAIN resultado.lista : resultado.lista[i].id # id

\* A mutating method is called on id.
LlamadaSobre(id) ==
    /\ pc = "menu"
    /\ llamada'.op \in {"eliminar_producto", "actualizar_cantidad", "actualizar_precio",
                       "actualizar_nombre"}
    /\ llamada'.prod_id = id

\* C15 as stated: once eliminar_producto(id) has returned True the id stays
\* deleted and is nowhere, and eliminar_producto, actualizar_cantidad,
\* actualizar_precio and actualizar_nombre on it return False.
C15_CicloDeVidaOriginal ==
    /\ []EliminadoAusente
    /\ [][/\ eliminados \subseteq eliminados'
          /\ \A id \in eliminados : LlamadaSobre(id) => NoEncontrado]_vars

\* C15 amended: once eliminar_producto(id) has returned True the id stays
\* deleted and is nowhere, whatever is created afterwards; eliminar_producto
\* and actualizar_nombre on it, and actualizar_cantidad and actualizar_precio
\* with a value that is not negative, return False and change nothing;
\* actualizar_cantidad and actualizar_precio with a negative value raise
\* ValueError and change nothing.
C15_CicloDeVida ==
    /\ []EliminadoAusente
    /\ [][/\ eliminados \subseteq eliminados'
          /\ \A id \in eliminados :
               LlamadaSobre(id) => IF EntradaNegativa' THEN Rechazada ELSE NoEncontrado]_vars

\* actualizar_nombre has returned False for a deleted id while an item with a
\* greater id is held.
C15_Testigo ==
    /\ pc = "retorno"
    /\ llamada.op = "actualizar_nombre"
    /\ llamada.prod_id \in eliminados
    /\ resultado.ret = "False"
    /\ \E p \in valores(_productos_por_id) : p.id > llamada.prod_id

\* Memory m and the memory now held have the same ids, the same Producto
\* under each id and the same name index.
MismaMemoria(m) ==
    /\ claves(m.por_id) = claves(_productos_por_id)
    /\ \A id \in claves(m.por_id) : dict_get(m.por_id, id) = obtener_por_id(id)
    /\ m.idx = _nombre_idx

\* Wherever the program can be closed (at the menu, or on an exception that
\* menu() does not catch), what a new Inventario would load from the file, in
\* whichever order the SELECT gives the rows, is the memory now held.
ReinicioEquivalente ==
    pc \in {"menu", "error"}
    => \A orden \in select_ordenes(disco) : MismaMemoria(_cargar_desde_db(disco, orden))

\* C16: closing the Inventario and constructing a new one on the same file
\* gives a _productos_por_id with the same ids and the same nombre, cantidad
\* and precio under each id, and the same _nombre_idx; and what the new
\* Inventario holds is what _cargar_desde_db builds from nothing: exactly the
\* rows of the table.
C16_Reinicio ==
    /\ []ReinicioEquivalente
    /\ [][Inventario
          => /\ _productos_por_id = <<>> /\ _nombre_idx = <<>>
             /\ Memoria' \in { _cargar_desde_db(disco, orden) : orden \in select_ordenes(disco) }
             /\ Converge(disco)'
             /\ almacen_igual]_vars

\* A new Inventario has loaded two rows of one normalized name in descending
\* order of id.
C16_Testigo ==
    /\ pc = "menu"
    /\ Len(_productos_por_id) = 2
    /\ _productos_por_id[1].id > _productos_por_id[2].id
    /\ _productos_por_id[1].nombre # _productos_por_id[2].nombre
    /\ Cardinality(DOMAIN _nombre_idx) = 1

\* What a read leaves: no call on conn, the table (committed and as the
\* connection sees it), the dict with every Producto, and the name index as
\* they were.
LecturaPura ==
    /\ pc' = "retorno"
    /\ traza = <<>> /\ traza' = <<>>
    /\ almacen_igual
    /\ memoria_igual

\* C17: obtener_por_id, buscar_por_nombre and listar_todos, for every
\* argument and wherever they are called, make no call on conn and leave the
\* table, _productos_por_id with every Producto's fields, and _nombre_idx
\* unchanged.
C17_LecturasPuras ==
    [][/\ \A prod_id \in Ids : llamar_obtener_por_id(prod_id) => LecturaPura
       /\ \A consulta \in Consultas : llamar_buscar_por_nombre(consulta) => LecturaPura
       /\ llamar_listar_todos => LecturaPura]_vars

\* buscar_por_nombre has answered, from the substring tier, a query that is no
\* key of the name index, and it still is none.
C17_Testigo ==
    /\ pc = "retorno"
    /\ llamada.op = "buscar_por_nombre"
    /\ resultado.lista # <<>>
    /\ _normaliza(llamada.nombre) \notin DOMAIN _nombre_idx

\* The dict after the step differs from the dict before it in the Producto
\* under id alone, which is now p.
SoloCambia(id, p) ==
    /\ ids_en_orden(_productos_por_id') = ids_en_orden(_productos_por_id)
    /\ \A j \in claves(_productos_por_id) :
         obtener_por_id(j)' = IF j = id THEN p ELSE obtener_por_id(j)

\* C18: when actualizar_cantidad(id, v) or actualizar_precio(id, v) returns
\* True, the row of id in the table and the Producto of id in memory have v in
\* that field and are otherwise as they were when the call began; no other row
\* and no other Producto has changed, the dict has the same keys, and
\* _nombre_idx is as it was.
C18_CamposSinIndice ==
    [][/\ actualizar_cantidad_set
          => LET id == llamada.prod_id
                 v == llamada.valor
             IN /\ resultado'.ret = "True"
                /\ fila_de(obtener_por_id(id)) = previo[id]
                /\ SoloCambia(id, [obtener_por_id(id) EXCEPT !.cantidad = v])
                /\ disco'.productos = [previo EXCEPT ![id].cantidad = v]
                /\ UNCHANGED _nombre_idx
       /\ actualizar_precio_set
          => LET id == llamada.prod_id
                 v == llamada.precio
             IN /\ resultado'.ret = "True"
                /\ fila_de(obtener_por_id(id)) = previo[id]
                /\ SoloCambia(id, [obtener_por_id(id) EXCEPT !.precio = v])
                /\ disco'.productos = [previo EXCEPT ![id].precio = v]
                /\ UNCHANGED _nombre_idx]_vars

\* actualizar_precio has returned True with a new precio that differs from
\* the old one and from the cantidad, for an item that shares its name-set.
C18_Testigo ==
    /\ pc = "retorno"
    /\ llamada.op = "actualizar_precio"
    /\ resultado.ret = "True"
    /\ previo[llamada.prod_id].precio # llamada.precio
    /\ obtener_por_id(llamada.prod_id).cantidad # llamada.precio
    /\ Cardinality(_nombre_idx[_normaliza(obtener_por_id(llamada.prod_id).nombre)]) = 2

Mutadoras == {"anadir_producto", "eliminar_producto", "actualizar_cantidad",
              "actualizar_precio", "actualizar_nombre"}

\* C19: a call of anadir_producto, eliminar_producto, actualizar_cantidad,
\* actualizar_precio or actualizar_nombre that returns its Producto or True has
\* completed exactly one conn.execute and then exactly one conn.commit, both
\* before the rest of the method and its return, and what it wrote is
\* committed; one that raises ValueError or returns False has completed
\* neither; and at no step has a call completed more than one of each, or a
\* commit without the execute before it.
C19_UnaEscrituraUnCommit ==
    /\ traza \in {<<>>, <<"execute">>, <<"execute", "commit">>}
    /\ pc = "indexar" => traza = <<"execute", "commit">> /\ disco = conn
    /\ (pc = "retorno" /\ llamada.op \in Mutadoras)
       => /\ resultado.ret \in {"Producto", "True", "ValueError", "False"}
          /\ resultado.ret \in {"Producto", "True"}
             => traza = <<"execute", "commit">> /\ disco = conn
          /\ resultado.ret \in {"ValueError", "False"}
             => traza = <<>> /\ disco = conn /\ disco.productos = previo

\* actualizar_cantidad has returned True for the cantidad the item had: the
\* UPDATE and the commit were made all the same.
C19_Testigo ==
    /\ pc = "retorno"
    /\ llamada.op = "actualizar_cantidad"
    /\ resultado.ret = "True"
    /\ previo[llamada.prod_id].cantidad = llamada.valor
    /\ traza = <<"execute", "commit">>

\* The id a call targets: the one it was given, or the one its INSERT made.
objetivo(marco) == IF marco.op = "anadir_producto" THEN marco.lastrowid ELSE marco.prod_id

\* The row of j in table t, or a row no table holds when j has none.
fila_en(t, j) == IF j \in DOMAIN t.productos THEN t.productos[j] ELSE Fila(<<>>, None, None)

\* The keys of _nombre_idx whose set holds j.
conjuntos_de(j) == { k \in DOMAIN _nombre_idx : j \in _nombre_idx[k] }

\* The step leaves j as it was: its Producto or its absence in the dict, its
\* row or its absence in the table, and the name-sets it belongs to.
OtroIntacto(j) ==
    /\ obtener_por_id(j)' = obtener_por_id(j)
    /\ fila_en(disco, j)' = fila_en(disco, j)
    /\ fila_en(conn, j)' = fila_en(conn, j)
    /\ conjuntos_de(j)' = conjuntos_de(j)

\* C20: no step of a call (its validation and execute, its commit, its update
\* of memory, its return) changes the Producto, the row, the presence or the
\* name-set membership of an id other than the one the call targets.
C20_Aislamiento ==
    [][(pc # "cerrado" /\ pc' # "cerrado")
       => \A j \in Ids :
            j # objetivo(IF pc = "menu" THEN llamada' ELSE llamada) => OtroIntacto(j)]_vars

\* actualizar_nombre has moved an item out of a name-set that it shared; the
\* other item is still in it.
C20_Testigo ==
    /\ pc = "retorno"
    /\ llamada.op = "actualizar_nombre"
    /\ resultado.ret = "True"
    /\ _normaliza(llamada.nombre_anterior) # _normaliza(llamada.nombre)
    /\ \E j \in claves(_productos_por_id) :
         /\ j # llamada.prod_id
         /\ _normaliza(previo[j].nombre) = _normaliza(llamada.nombre_anterior)
         /\ conjuntos_de(j) = {_normaliza(llamada.nombre_anterior)}

====
